---- MODULE Spec2Model ----
(***************************************************************************)
(* Model of the Yasno outages integration (calendar.py): the schedule      *)
(* extractor, the fractional-hour decoder, the interval builder of         *)
(* YasnoDataUpdateCoordinator._async_update_data and the read side of      *)
(* YasnoOutagesCalendar (state, extra_state_attributes, async_get_events). *)
(***************************************************************************)
EXTENDS Integers, Sequences, FiniteSets, TLC

(***************************************************************************)
(* JSON values.  Every value is a record with the same fields so that TLC  *)
(* can compare any two of them.  "sched" stands for a schedule mapping     *)
(* {city: {dayKey: day, ...}}: city says whether the configured city is a  *)
(* key of it, days lists the day entries in key order.                     *)
(***************************************************************************)
JNum(k) == [t |-> "num", n |-> k, ks |-> <<>>, vs |-> <<>>, city |-> FALSE, days |-> <<>>]
JObj(keys, vals) == [t |-> "obj", n |-> 0, ks |-> keys, vs |-> vals, city |-> FALSE, days |-> <<>>]
JArr(vals) == [t |-> "arr", n |-> 0, ks |-> <<>>, vs |-> vals, city |-> FALSE, days |-> <<>>]
JSched(c, ds) == [t |-> "sched", n |-> 0, ks |-> <<>>, vs |-> <<>>, city |-> c, days |-> ds]
None == [t |-> "none", n |-> 0, ks |-> <<>>, vs |-> <<>>, city |-> FALSE, days |-> <<>>]

\* Python truthiness of a JSON value (a schedule mapping is never empty).
Truthy(v) ==
    CASE v.t = "num"   -> v.n # 0
      [] v.t = "obj"   -> Len(v.ks) > 0
      [] v.t = "arr"   -> Len(v.vs) > 0
      [] v.t = "sched" -> TRUE
      [] OTHER         -> FALSE

KeyIndex(d, k) == CHOOSE i \in 1..Len(d.ks) : d.ks[i] = k

\* YasnoDataUpdateCoordinator._extract_schedule: a hit at an object level is
\* returned as is; a recursive result is only taken when it is truthy.
RECURSIVE ExtractSchedule(_, _), ExtractSeq(_, _, _)
ExtractSchedule(data, target) ==
    IF data.t = "obj"
    THEN IF \E i \in 1..Len(data.ks) : data.ks[i] = target
         THEN data.vs[KeyIndex(data, target)]
         ELSE ExtractSeq(data.vs, target, 1)
    ELSE IF data.t = "arr"
         THEN ExtractSeq(data.vs, target, 1)
         ELSE None
ExtractSeq(vals, target, i) ==
    IF i > Len(vals) THEN None
    ELSE LET r == ExtractSchedule(vals[i], target)
         IN IF Truthy(r) THEN r ELSE ExtractSeq(vals, target, i + 1)

(***************************************************************************)
(* Bounded JSON trees for the extractor.                                   *)
(***************************************************************************)
MaxDepth == 2
TargetKey == "dailySchedule"
TreeKeys == {TargetKey, "x"}
KeyPairs == {kk \in TreeKeys \X TreeKeys : kk[1] # kk[2]}
Scalars == {JNum(0), JNum(1), JObj(<<>>, <<>>), JArr(<<>>)}
RECURSIVE TreesUpTo(_)
TreesUpTo(d) ==
    IF d = 0 THEN Scalars
    ELSE LET T == TreesUpTo(d - 1)
         IN  T \cup {JObj(<<k>>, <<v>>) : k \in TreeKeys, v \in T}
               \cup {JObj(<<kk[1], kk[2]>>, <<v, s>>) : kk \in KeyPairs, v \in T, s \in Scalars}
               \cup {JObj(<<kk[1], kk[2]>>, <<s, v>>) : kk \in KeyPairs, v \in T, s \in Scalars}
               \cup {JArr(<<v>>) : v \in T}
               \cup {JArr(<<v, s>>) : v \in T, s \in Scalars}
               \cup {JArr(<<s, v>>) : v \in T, s \in Scalars}
Trees == TreesUpTo(MaxDepth)

\* Reference traversal of the spec: the first occurrence of the key in a
\* depth-first, parent-before-children, sibling-order walk.
RECURSIVE Occurs(_, _), FirstOcc(_, _), FirstOccSeq(_, _, _)
Occurs(v, k) ==
    \/ v.t = "obj" /\ \E i \in 1..Len(v.ks) : v.ks[i] = k
    \/ v.t \in {"obj", "arr"} /\ \E i \in 1..Len(v.vs) : Occurs(v.vs[i], k)
FirstOcc(v, k) ==
    IF v.t = "obj" /\ \E i \in 1..Len(v.ks) : v.ks[i] = k
    THEN v.vs[KeyIndex(v, k)]
    ELSE IF v.t \in {"obj", "arr"} THEN FirstOccSeq(v.vs, k, 1) ELSE None
FirstOccSeq(vals, k, i) ==
    IF i > Len(vals) THEN None
    ELSE IF Occurs(vals[i], k) THEN FirstOcc(vals[i], k)
         ELSE FirstOccSeq(vals, k, i + 1)

(***************************************************************************)
(* _format_hours on the float nearest to H + M/60 (JSON number).  The     *)
(* float is v = RN(H + M/60) with 53-bit significand, v - H is exact, the  *)
(* product (v - H) * 60 is rounded once and int() truncates it.  With     *)
(* e = floor(log2(H + M/60)), the significand of v is the integer nearest  *)
(* X = (60H + M) * 2^(52-e) / 60; r is X's remainder times 60, and         *)
(* (v - H) * 60 = M + d * 2^(e-52) with d the signed rounding step.  The  *)
(* product rounds back to M unless d < 0 and |d| * 2^(e-52) exceeds half   *)
(* the gap below M, in which case int() yields M - 1.                      *)
(***************************************************************************)
RECURSIVE PowMod(_, _, _)
PowMod(b, k, m) == IF k = 0 THEN 1 % m ELSE (b * PowMod(b, k - 1, m)) % m

Fits(x, val) == IF x >= 0 THEN 60 * 2^x <= val ELSE 60 <= val * 2^(-x)
FloatExp(val) == CHOOSE x \in -6..4 : Fits(x, val) /\ ~Fits(x + 1, val)
\* exponent of the gap between M and the next float below it, plus one
GapBelowExp(m) == LET E == CHOOSE x \in 0..6 : 2^x <= m /\ m < 2^(x + 1)
                  IN IF 2^E = m THEN E - 1 ELSE E
Max0(x) == IF x > 0 THEN x ELSE 0

TruncMinutes(H, M) ==
    LET val == 60 * H + M
    IN IF M = 0 THEN 0
       ELSE LET e   == FloatExp(val)
                t   == (val * PowMod(2, 52 - e, 120)) % 120
                r   == t % 60
                odd == t >= 60
                up  == r > 30 \/ (r = 30 /\ odd)
                d   == IF up THEN 60 - r ELSE -r
            IN IF d >= 0 THEN M
               ELSE IF (-d) * 2^Max0(e + 1) * 2 <= 2^(GapBelowExp(M) + 1 + Max0(-(e + 1)))
                    THEN M
                    ELSE M - 1

\* whole_hours = int(hours); minutes = int((hours - whole_hours) * 60)
FormatHoursParts(hm) == <<hm.h, TruncMinutes(hm.h, hm.m)>>

Digits == <<"0", "1", "2", "3", "4", "5", "6", "7", "8", "9">>
Pad2(k) == Digits[(k \div 10) + 1] \o Digits[(k % 10) + 1]
\* YasnoDataUpdateCoordinator._format_hours: f"{whole_hours:02d}:{minutes:02d}"
FormatHours(hm) == LET pr == FormatHoursParts(hm) IN Pad2(pr[1]) \o ":" \o Pad2(pr[2])

(***************************************************************************)
(* Interval builder (_async_update_data).  A day entry is either a        *)
(* mapping ("map") or some other JSON value ("nonmap", on which .get      *)
(* raises AttributeError).  title is the date the title's date token      *)
(* parses to (1 and 2 are consecutive days) or BadDate when strptime      *)
(* rejects it.  A period holds fractional hours [h |-> H, m |-> M] for     *)
(* start and end; hasS / hasE say whether the keys are present.           *)
(* Timestamps are minutes, compared as wall-clock times of one zone.       *)
(***************************************************************************)
BadDate == 0
StrptimeOk(date, pr) == date # BadDate /\ pr[1] \in 0..23 /\ pr[2] \in 0..59
Stamp(date, pr) == date * (24 * 60) + pr[1] * 60 + pr[2]

\* duplicate test with exclusive boundaries (mutant of Overlaps)
OverlapsExclusive(evs, st, en) ==
    \E j \in 1..Len(evs) :
        \/ evs[j].start < st /\ st < evs[j].end
        \/ evs[j].start < en /\ en < evs[j].end
        \/ st < evs[j].start /\ en > evs[j].end

\* the duplicate test of the append guard
Overlaps(evs, st, en) ==
    \E j \in 1..Len(evs) :
        \/ evs[j].start <= st /\ st <= evs[j].end
        \/ evs[j].start <= en /\ en <= evs[j].end
        \/ st <= evs[j].start /\ en >= evs[j].end

\* the period loop of one day, inside its try: a KeyError or ValueError
\* ends the loop for the rest of the day.  seen records every interval that
\* reached the duplicate test.
RECURSIVE BuildPeriods(_, _, _, _)
BuildPeriods(ps, i, date, acc) ==
    IF i > Len(ps) THEN acc
    ELSE LET p == ps[i]
         IN IF ~p.hasS \/ ~p.hasE THEN acc
            ELSE LET sp == FormatHoursParts(p.s)
                     ep == FormatHoursParts(p.e)
                 IN IF ~StrptimeOk(date, sp) \/ ~StrptimeOk(date, ep) THEN acc
                    ELSE LET iv == [start |-> Stamp(date, sp), end |-> Stamp(date, ep)]
                         IN BuildPeriods(ps, i + 1, date,
                              [acc EXCEPT !.seen = Append(@, iv),
                                          !.events = IF Overlaps(@, iv.start, iv.end)
                                                     THEN @ ELSE Append(@, iv)])

\* the loop over city_data.values()
RECURSIVE BuildDays(_, _, _)
BuildDays(ds, i, acc) ==
    IF acc.raised \/ i > Len(ds) THEN acc
    ELSE LET d == ds[i]
         IN IF d.kind = "nonmap" THEN [acc EXCEPT !.raised = TRUE]
            ELSE IF ~d.hasGroup THEN BuildDays(ds, i + 1, acc)
            ELSE BuildDays(ds, i + 1, BuildPeriods(d.periods, 1, d.title, acc))

\* one pass of the loop over schedule_type
ProcessSched(sch, acc) ==
    IF ~acc.raised /\ Truthy(sch) /\ sch.t = "sched" /\ sch.city
    THEN BuildDays(sch.days, 1, acc)
    ELSE acc

\* sorted(events, key=lambda x: x.start): a stable sort
\* insertion in front of equal starts (mutant of InsertByStart)
InsertByStartUnstable(srt, x) ==
    LET k == Len(SelectSeq(srt, LAMBDA y : y.start < x.start))
    IN SubSeq(srt, 1, k) \o <<x>> \o SubSeq(srt, k + 1, Len(srt))
InsertByStart(srt, x) ==
    LET k == Len(SelectSeq(srt, LAMBDA y : y.start <= x.start))
    IN SubSeq(srt, 1, k) \o <<x>> \o SubSeq(srt, k + 1, Len(srt))
RECURSIVE SortFrom(_, _, _)
SortFrom(raw, i, srt) == IF i > Len(raw) THEN srt ELSE SortFrom(raw, i + 1, InsertByStart(srt, raw[i]))
SortByStart(raw) == SortFrom(raw, 1, <<>>)

\* YasnoDataUpdateCoordinator._async_update_data after the fetch
Build(data) ==
    LET a0 == [events |-> <<>>, seen |-> <<>>, raised |-> FALSE]
        a1 == ProcessSched(ExtractSchedule(data, "dailySchedule"), a0)
        a2 == ProcessSched(ExtractSchedule(data, "tomorrowSchedule"), a1)
    IN [events |-> SortByStart(a2.events), raw |-> a2.events,
        seen |-> a2.seen, raised |-> a2.raised]

\* the fetched document {"dailySchedule": s1, "tomorrowSchedule": s2};
\* None leaves the key out
DataOf(s1, s2) ==
    CASE s1 # None /\ s2 # None -> JObj(<<"dailySchedule", "tomorrowSchedule">>, <<s1, s2>>)
      [] s1 # None              -> JObj(<<"dailySchedule">>, <<s1>>)
      [] s2 # None              -> JObj(<<"tomorrowSchedule">>, <<s2>>)
      [] OTHER                  -> JObj(<<>>, <<>>)

(***************************************************************************)
(* Read side of YasnoOutagesCalendar.                                      *)
(***************************************************************************)
STATE_NO_SCHEDULE == "no_schedule"
STATE_GRID_ON == "grid_on"
STATE_OUTAGE == "outage"
STATE_ON == "on"
STATE_OFF == "off"
NoIv == [start |-> -1, end |-> -1]

Covers(iv, nw) == iv.start <= nw /\ nw <= iv.end
MinOf(S) == CHOOSE i \in S : \A j \in S : i <= j

\* current event with an exclusive end (mutant of CurrentEvent)
CurrentEventOpenEnd(evs, nw) ==
    LET I == {i \in 1..Len(evs) : evs[i].start <= nw /\ nw < evs[i].end}
    IN IF I = {} THEN NoIv ELSE evs[MinOf(I)]

\* next((event for event in events if event.start <= now <= event.end), None)
CurrentEvent(evs, nw) ==
    LET I == {i \in 1..Len(evs) : Covers(evs[i], nw)}
    IN IF I = {} THEN NoIv ELSE evs[MinOf(I)]

\* min(future_events, key=lambda x: x.start): the first element of least start
NextEvent(evs, nw) ==
    LET F == {i \in 1..Len(evs) : evs[i].start > nw}
        L == {i \in F : \A j \in F : evs[i].start <= evs[j].start}
    IN IF F = {} THEN NoIv ELSE evs[MinOf(L)]

\* state reporting grid_on for an empty schedule (mutant of StateResult)
StateResultNoEmptyCase(evs, nw) ==
    IF CurrentEvent(evs, nw) # NoIv THEN <<STATE_OUTAGE, STATE_OFF>>
    ELSE <<STATE_GRID_ON, STATE_ON>>

\* YasnoOutagesCalendar.state: <<value left in _internal_state, returned state>>
StateResult(evs, nw) ==
    IF evs = <<>> THEN <<STATE_NO_SCHEDULE, STATE_ON>>
    ELSE IF CurrentEvent(evs, nw) # NoIv THEN <<STATE_OUTAGE, STATE_OFF>>
    ELSE <<STATE_GRID_ON, STATE_ON>>

\* the result of the last operation; fields an operation does not produce
\* keep these defaults (NoIv and -1 stand for an attribute key left out)
NoOut == [op |-> "none", val |-> "", detailed |-> "", has |-> FALSE,
          current |-> NoIv, next |-> NoIv, mpower |-> -1, moutage |-> -1,
          total |-> -1, ws |-> -1, we |-> -1, evs |-> <<>>, raised |-> FALSE,
          empty |-> FALSE, evcc |-> NoIv, evroot |-> NoIv]

\* YasnoOutagesCalendar.event of custom_components: the current event,
\* else the first of least start among those starting after now
EventCC(evs, nw) ==
    IF CurrentEvent(evs, nw) # NoIv THEN CurrentEvent(evs, nw) ELSE NextEvent(evs, nw)

\* YasnoOutagesCalendar.event of calendar.py: min(key=start) over the
\* events with end > now
EventRoot(evs, nw) ==
    LET F == {i \in 1..Len(evs) : evs[i].end > nw}
        L == {i \in F : \A j \in F : evs[i].start <= evs[j].start}
    IN IF F = {} THEN NoIv ELSE evs[MinOf(L)]

\* YasnoOutagesCalendar.extra_state_attributes (custom_components version)
Attributes(evs, nw, internalState) ==
    LET cur == CurrentEvent(evs, nw)
        nxt == NextEvent(evs, nw)
    IN [NoOut EXCEPT !.op = "attrs",
                     !.detailed = internalState,
                     !.has = (evs # <<>>),
                     !.current = IF evs # <<>> THEN cur ELSE NoIv,
                     !.next = IF evs # <<>> THEN nxt ELSE NoIv,
                     !.mpower = IF evs # <<>> /\ cur # NoIv THEN cur.end - nw ELSE -1,
                     !.moutage = IF evs # <<>> /\ nxt # NoIv THEN nxt.start - nw ELSE -1,
                     !.total = IF evs # <<>> THEN Len(evs) ELSE -1]

\* custom_components async_get_events: the second disjunct reads the
\* undefined name `end` and raises NameError whenever it is evaluated,
\* i.e. for the first event whose start is outside the window
GetEventsCCResult(evs, ws, we) ==
    IF \E i \in 1..Len(evs) : ~(ws <= evs[i].start /\ evs[i].start <= we)
    THEN [NoOut EXCEPT !.op = "get_cc", !.ws = ws, !.we = we, !.raised = TRUE]
    ELSE [NoOut EXCEPT !.op = "get_cc", !.ws = ws, !.we = we, !.evs = evs]

\* src/calendar.py async_get_events
GetEventsRootResult(evs, ws, we) ==
    [NoOut EXCEPT !.op = "get_root", !.ws = ws, !.we = we,
        !.evs = SelectSeq(evs, LAMBDA e :
                    \/ ws <= e.start /\ e.start <= we
                    \/ ws <= e.end /\ e.end <= we
                    \/ e.start <= ws /\ e.end >= we)]

(***************************************************************************)
(* Inputs.                                                                 *)
(***************************************************************************)
HM(hh, mm) == [h |-> hh, m |-> mm]
Per(sh, sm, eh, em) == [s |-> HM(sh, sm), e |-> HM(eh, em), hasS |-> TRUE, hasE |-> TRUE]
PA == Per(10, 0, 12, 0)
PB == Per(11, 0, 13, 0)
PC == Per(12, 0, 10, 0)
PE == Per(12, 0, 9, 0)
PD == Per(15, 0, 17, 0)
PX == Per(13, 0, 24, 0)
PMiss == [s |-> HM(0, 0), e |-> HM(12, 0), hasS |-> FALSE, hasE |-> TRUE]
BuildPeriodVals == {PA, PB, PC, PE, PX, PMiss}
EntityPeriodVals == {PA, PB, PD}
\* a day entry is a mapping with a title of date 1, date 2 or an unparseable
\* one, a mapping without the group, or not a mapping
DayKinds == {"t1", "t2", "tbad", "nogroup", "nonmap"}
TitleOf(kd) == CASE kd = "t1" -> 1 [] kd = "t2" -> 2 [] OTHER -> BadDate
\* documents hold at most MaxItems day entries and periods together
MaxItems == 4
MaxEntityPeriods == 2

\* period lists of at most n periods
PeriodLists(pv, n) == UNION {[1..k -> pv] : k \in 0..n}
GoodDay(t, q) == [kind |-> "map", hasGroup |-> TRUE, title |-> t, periods |-> q]
NoGroupDay == [kind |-> "map", hasGroup |-> FALSE, title |-> 1, periods |-> <<>>]
NonMapDay == [kind |-> "nonmap", hasGroup |-> FALSE, title |-> 1, periods |-> <<>>]
MakeDay(kd, q) == CASE kd = "nogroup" -> NoGroupDay
                    [] kd = "nonmap"  -> NonMapDay
                    [] OTHER          -> GoodDay(TitleOf(kd), q)
SumTo(cnt, i) == LET F[j \in 0..i] == IF j = 0 THEN 0 ELSE F[j - 1] + cnt[j] IN F[i]
\* a schedule value holding the given days for the city; with no days the
\* key may also be missing or the city absent from it
SchedOpts(part) == IF part = <<>> THEN {None, JSched(FALSE, <<>>), JSched(TRUE, <<>>)}
                   ELSE {JSched(TRUE, part)}
EntityInputs ==
    {[daily |-> None, tomorrow |-> None]}
    \cup {[daily |-> JSched(TRUE, <<GoodDay(1, q)>>), tomorrow |-> None] : q \in PeriodLists(EntityPeriodVals, MaxEntityPeriods)}
\* instants of day 1 (minutes), 08:00 .. 17:00
TimePoints == {24 * 60 + 60 * hh : hh \in {8, 9, 10, 11, 12, 13, 15, 17}}
\* range-query window bounds, 08:00 .. 17:00 with 11:30 and 14:00
WindowPoints == {24 * 60 + 60 * hh : hh \in {8, 9, 12, 14, 17}} \cup {24 * 60 + 11 * 60 + 30}

(***************************************************************************)
(* State.                                                                  *)
(*   jtree, jres, jpc        one call of _extract_schedule                  *)
(*   fh, fout, fpc           one call of _format_hours                      *)
(*   binput, bres, bpc       one run of _async_update_data                  *)
(*   events                  coordinator.data["events"]                     *)
(*   now                     the clock read by datetime.now                 *)
(*   internal                YasnoOutagesCalendar._internal_state           *)
(*   out                     the result of the last operation               *)
(***************************************************************************)
VARIABLES jtree, jres, jpc, fh, fout, fpc, binput, bres, bpc, events, now, internal, out
vars == <<jtree, jres, jpc, fh, fout, fpc, binput, bres, bpc, events, now, internal, out>>
jvars == <<jtree, jres, jpc>>
fvars == <<fh, fout, fpc>>
bvars == <<binput, bres, bpc>>
evars == <<events, now, internal, out>>

NoBuild == [events |-> <<>>, raw |-> <<>>, seen |-> <<>>, raised |-> FALSE]
NoInput == [daily |-> None, tomorrow |-> None]
JIdle == jtree = None /\ jres = None /\ jpc = "idle"
FIdle == fh = HM(0, 0) /\ fout = "" /\ fpc = "idle"
BIdle == binput = NoInput /\ bres = NoBuild /\ bpc = "idle"
EIdle == events = <<>> /\ now = 0 /\ internal = STATE_NO_SCHEDULE /\ out = NoOut

\* ---- _extract_schedule(data, "dailySchedule") on a bounded tree ----
ExtractInit == jtree \in Trees /\ jres = None /\ jpc = "init" /\ FIdle /\ BIdle /\ EIdle
ExtractStep ==
    /\ jpc = "init"
    /\ jres' = ExtractSchedule(jtree, TargetKey)
    /\ jpc' = "done"
    /\ UNCHANGED <<jtree, fvars, bvars, evars>>
ExtractNext == ExtractStep
ExtractSpec == ExtractInit /\ [][ExtractNext]_vars

\* ---- _format_hours(H + M/60) ----
FormatInit == fh \in [h : 0..23, m : 0..59] /\ fout = "" /\ fpc = "init" /\ JIdle /\ BIdle /\ EIdle
FormatHoursStep ==
    /\ fpc = "init"
    /\ fout' = FormatHours(fh)
    /\ fpc' = "done"
    /\ UNCHANGED <<fh, jvars, bvars, evars>>
FormatNext == FormatHoursStep
FormatSpec == FormatInit /\ [][FormatNext]_vars

\* ---- one _async_update_data on a bounded document ----
\* the L day entries hold cnt[i] periods each, cut from one list ps; the
\* first k days sit under dailySchedule and the rest under tomorrowSchedule
BuildInit ==
    /\ \E L \in 0..MaxItems : \E cnt \in [1..L -> 0..MaxItems] :
          /\ L + SumTo(cnt, L) <= MaxItems
          /\ \E kd \in [1..L -> DayKinds] :
                /\ \A i \in 1..L : kd[i] \in {"nogroup", "nonmap"} => cnt[i] = 0
                /\ \E ps \in [1..SumTo(cnt, L) -> BuildPeriodVals] :
                      LET ds == [i \in 1..L |-> MakeDay(kd[i], SubSeq(ps, SumTo(cnt, i - 1) + 1, SumTo(cnt, i)))]
                      IN \E k \in 0..L : \E a \in SchedOpts(SubSeq(ds, 1, k)) : \E b \in SchedOpts(SubSeq(ds, k + 1, L)) :
                            binput = [daily |-> a, tomorrow |-> b]
    /\ bres = NoBuild /\ bpc = "init" /\ JIdle /\ FIdle /\ EIdle
BuildStep ==
    /\ bpc = "init"
    /\ bres' = Build(DataOf(binput.daily, binput.tomorrow))
    /\ bpc' = "done"
    /\ UNCHANGED <<binput, jvars, fvars, evars>>
BuildNext == BuildStep
BuildSpec == BuildInit /\ [][BuildNext]_vars

\* ---- the coordinator and the calendar entity ----
\* async_config_entry_first_refresh has stored a first successful build
\* every document the coordinator may fetch, with its build
EntityBuilds == {[in |-> i, b |-> Build(DataOf(i.daily, i.tomorrow))] : i \in EntityInputs}
EntityInit ==
    /\ events \in {r.b.events : r \in EntityBuilds}
    /\ now \in TimePoints
    /\ internal = STATE_NO_SCHEDULE
    /\ out = NoOut
    /\ JIdle /\ FIdle /\ BIdle

\* the coordinator replaces data["events"] with a fresh build; a build that
\* raises leaves the previous data in place
Refresh ==
    \E r \in EntityBuilds :
        /\ events' = IF r.b.raised THEN events ELSE r.b.events
        /\ out' = [NoOut EXCEPT !.op = "refresh", !.empty = (r.in.daily = None /\ r.in.tomorrow = None)]
        /\ UNCHANGED <<now, internal, jvars, fvars, bvars>>

Tick ==
    \E t \in TimePoints :
        /\ t > now
        /\ now' = t
        /\ out' = [NoOut EXCEPT !.op = "tick"]
        /\ UNCHANGED <<events, internal, jvars, fvars, bvars>>

\* YasnoOutagesCalendar.state
ReadState ==
    LET r == StateResult(events, now)
    IN /\ internal' = r[1]
       /\ out' = [NoOut EXCEPT !.op = "state", !.val = r[2]]
       /\ UNCHANGED <<events, now, jvars, fvars, bvars>>

\* YasnoOutagesCalendar.extra_state_attributes
ReadAttrs ==
    /\ out' = Attributes(events, now, internal)
    /\ UNCHANGED <<events, now, internal, jvars, fvars, bvars>>

\* async_get_events of custom_components/yasno_outages/calendar.py
GetEventsCC ==
    \E ws, we \in WindowPoints :
        /\ ws <= we
        /\ out' = GetEventsCCResult(events, ws, we)
        /\ UNCHANGED <<events, now, internal, jvars, fvars, bvars>>

\* async_get_events of calendar.py
GetEventsRoot ==
    \E ws, we \in WindowPoints :
        /\ ws <= we
        /\ out' = GetEventsRootResult(events, ws, we)
        /\ UNCHANGED <<events, now, internal, jvars, fvars, bvars>>

\* the event property of both entity implementations on the same data and instant
ReadEvent ==
    /\ out' = [NoOut EXCEPT !.op = "event", !.evcc = EventCC(events, now), !.evroot = EventRoot(events, now)]
    /\ UNCHANGED <<events, now, internal, jvars, fvars, bvars>>

EntityNext == Refresh \/ Tick \/ ReadState \/ ReadAttrs \/ GetEventsCC \/ GetEventsRoot \/ ReadEvent
EntitySpec == EntityInit /\ [][EntityNext]_vars

(***************************************************************************)
(* Properties.                                                             *)
(***************************************************************************)
\* grid status as the spec defines it
ClaimStatus(evs, nw) ==
    IF evs = <<>> THEN "no_schedule"
    ELSE IF \E i \in 1..Len(evs) : evs[i].start <= nw /\ nw <= evs[i].end THEN "outage"
    ELSE "grid_on"

\* C1: find(document, key) returns the value bound to the first occurrence of
\* the key in a depth-first, parent-before-children, sibling-order walk, and
\* absent exactly when the key occurs nowhere.
C1_ExtractFirstOccurrence ==
    jpc = "done" =>
        /\ jres = FirstOcc(jtree, TargetKey)
        /\ (jres = None <=> ~Occurs(jtree, TargetKey))

\* C2: after a build every interval has start < end and no two intervals
\* overlap or touch (inclusive boundaries).
C2_IntervalsWellFormed ==
    (bpc = "done" /\ ~bres.raised) =>
        /\ \A i \in 1..Len(bres.events) : bres.events[i].start < bres.events[i].end
        /\ \A i, j \in 1..Len(bres.events) :
              i # j => ~(bres.events[i].start <= bres.events[j].end /\ bres.events[j].start <= bres.events[i].end)

\* C3: of the periods a build decodes, in processing order, a period is
\* appended iff no interval already appended contains its start or its end
\* (inclusive) and it contains no appended interval; appended intervals are
\* the decoded ones, never widened.
KthOf(K, k) == CHOOSE i \in K : Cardinality({j \in K : j <= i}) = k
ClaimConflict(old, new) ==
    \/ old.start <= new.start /\ new.start <= old.end
    \/ old.start <= new.end /\ new.end <= old.end
    \/ new.start <= old.start /\ new.end >= old.end
C3_DedupeRule ==
    bpc = "done" =>
        \E K \in SUBSET (1..Len(bres.seen)) :
            /\ \A i \in 1..Len(bres.seen) :
                  i \in K <=> ~\E j \in K : j < i /\ ClaimConflict(bres.seen[j], bres.seen[i])
            /\ Len(bres.raw) = Cardinality(K)
            /\ \A k \in 1..Len(bres.raw) : bres.raw[k] = bres.seen[KthOf(K, k)]
\* [10:00,12:00] then [11:00,13:00] on day 1: one interval, the first
C3_Witness ==
    /\ bpc = "done"
    /\ bres.seen = <<[start |-> 2040, end |-> 2160], [start |-> 2100, end |-> 2220]>>
    /\ bres.raw = <<[start |-> 2040, end |-> 2160]>>

\* C4: the output of a build is its accumulated intervals sorted by start,
\* equal starts keeping insertion order.
Perms(n) == {f \in [1..n -> 1..n] : \A i, j \in 1..n : i # j => f[i] # f[j]}
C4_SortedStable ==
    bpc = "done" =>
        /\ Len(bres.events) = Len(bres.raw)
        /\ \E f \in Perms(Len(bres.raw)) :
              /\ \A i \in 1..Len(bres.events) : bres.events[i] = bres.raw[f[i]]
              /\ \A i, j \in 1..Len(bres.events) :
                    i < j => /\ bres.events[i].start <= bres.events[j].start
                             /\ (bres.events[i].start = bres.events[j].start => f[i] < f[j])
\* two kept intervals with the same start, in the output
C4_Witness ==
    /\ bpc = "done"
    /\ \E i, j \in 1..Len(bres.events) :
          i < j /\ bres.events[i].start = bres.events[j].start /\ bres.events[i] # bres.events[j]

\* C5: the grid status an evaluation of state computes is no_schedule for an
\* empty sequence, outage when some interval covers now, grid_on otherwise;
\* an absent or empty document yields an empty sequence.
C5_GridStatus ==
    /\ out.op = "state" => internal = ClaimStatus(events, now)
    /\ (out.op = "refresh" /\ out.empty) => events = <<>>
C5_Witness == out.op = "state" /\ events = <<>> /\ internal = "no_schedule"

\* C6: currentEvent is the first interval covering now (absent if none) and
\* nextEvent an interval of least start among those starting after now.
C6_CurrentNext ==
    out.op = "attrs" =>
        LET I == {i \in 1..Len(events) : events[i].start <= now /\ now <= events[i].end}
            F == {i \in 1..Len(events) : events[i].start > now}
        IN /\ I = {} => out.current = NoIv
           /\ I # {} => \E i \in I : out.current = events[i] /\ \A j \in I : i <= j
           /\ F = {} => out.next = NoIv
           /\ F # {} => \E i \in F : out.next = events[i] /\ \A j \in F : events[i].start <= events[j].start
\* [{10-12},{15-17}] at 13:00: no current event, next {15-17}
C6_Witness ==
    /\ out.op = "attrs"
    /\ Len(events) = 2
    /\ now = 2220
    /\ out.current = NoIv
    /\ out.next = [start |-> 2340, end |-> 2460]

\* C7: a range query returns, without raising, exactly the intervals whose
\* start or end lies in the window or which contain the window.
C7_GetEvents ==
    out.op \in {"get_cc", "get_root"} =>
        /\ ~out.raised
        /\ out.evs = SelectSeq(events, LAMBDA e :
                \/ out.ws <= e.start /\ e.start <= out.we
                \/ out.ws <= e.end /\ e.end <= out.we
                \/ e.start <= out.ws /\ e.end >= out.we)

\* C8: a build never raises on bad data and every valid period of every
\* day with a parseable title reaches the duplicate test, malformed periods
\* or days before it notwithstanding.
ProcessedDays(sch) == IF sch.t = "sched" /\ sch.city THEN sch.days ELSE <<>>
ValidIv(d, p) ==
    /\ d.kind = "map" /\ d.hasGroup /\ d.title \in {1, 2}
    /\ p.hasS /\ p.hasE /\ p.s.h < 24 /\ p.e.h < 24
ClaimIv(d, p) == [start |-> d.title * 1440 + p.s.h * 60 + p.s.m, end |-> d.title * 1440 + p.e.h * 60 + p.e.m]
C8_BadDataSkipped ==
    bpc = "done" =>
        /\ ~bres.raised
        /\ \A ds \in {ProcessedDays(binput.daily), ProcessedDays(binput.tomorrow)} :
              \A i \in 1..Len(ds) : \A k \in 1..Len(ds[i].periods) :
                  ValidIv(ds[i], ds[i].periods[k]) =>
                      \E x \in 1..Len(bres.seen) : bres.seen[x] = ClaimIv(ds[i], ds[i].periods[k])

\* C9: _format_hours(H + M/60) is "HH:MM" for every H in 0..23, M in 0..59.
C9_FormatHours == fpc = "done" => fout = Pad2(fh.h) \o ":" \o Pad2(fh.m)

\* C10: the detailed_state attribute equals the grid status of the events
\* and instant the same attributes read uses.
C10_DetailedState == out.op = "attrs" => out.detailed = ClaimStatus(events, now)

\* C11: the event property returns the current interval (first with
\* start <= now <= end) when there is one, else the interval of least start
\* among those starting after now; it never returns an interval that is
\* neither current nor upcoming, and both implementations agree.
ClaimEvent(evs, nw) ==
    LET I == {i \in 1..Len(evs) : evs[i].start <= nw /\ nw <= evs[i].end}
        F == {i \in 1..Len(evs) : evs[i].start > nw}
        L == {i \in F : \A j \in F : evs[i].start <= evs[j].start}
    IN IF I # {} THEN evs[CHOOSE i \in I : \A j \in I : i <= j]
       ELSE IF F # {} THEN evs[CHOOSE i \in L : \A j \in L : i <= j]
       ELSE NoIv
C11_EventCurrentOrNext ==
    out.op = "event" =>
        /\ out.evcc = ClaimEvent(events, now)
        /\ out.evroot = ClaimEvent(events, now)
        /\ out.evcc = out.evroot

====
